---- MODULE Spec2Model ----
(***************************************************************************)
(* A model of three adapters of LlamaIndexTS:                              *)
(*   - packages/providers/google/src/base.ts: GeminiSession,               *)
(*     GeminiSessionStore, Gemini (session cache, tool-call translation);  *)
(*   - withContextAwareness / ContextAwareAgent (context injection);       *)
(*   - AzureCosmosVCoreIndexStore (the two factories).                     *)
(* Each part has its own specification over its own variables; the other   *)
(* parts' variables then stay at their initial values.                     *)
(***************************************************************************)
EXTENDS Naturals, Sequences, FiniteSets, TLC

VARIABLES
  \* GeminiSessionStore / GeminiSession / Gemini
  sessions,        \* GeminiSessionStore.sessions: <<[session, options]>>
  env,             \* the GOOGLE_API_KEY environment variable
  clients,         \* number of GoogleGenerativeAI clients constructed so far
  geminis,         \* the session field of every Gemini instance built so far
  last,            \* the last call on the store: its arguments and its outcome
  firstByKey,      \* history: session returned by the first get with explicit key k
  firstDefault,    \* history: session returned by the first default get under env key k
  \* ContextAwareAgent
  chatHistory,     \* this.chatHistory: <<[role, content]>>
  retrievedContext,\* the public field retrievedContext
  calls,           \* the chat calls started so far: <<[params, pc, context, slot]>>
  superChat,       \* the calls of the wrapped agent's chat: <<[call, params, history, ..]>>
  injected,        \* history: the contexts injected so far, oldest first
  history0,        \* history: the chat history the agent was constructed with
  \* Gemini tool-call translation
  uuids,           \* number of randomUUID() results handed out
  chatOut,         \* the outcome of the last nonStreamChat / streamChat
  \* AzureCosmosVCoreIndexStore
  viaClient,       \* the last fromMongoClient call: its arguments and its store
  viaConn          \* the last fromConnectionString call: its arguments and its store

storeVars == <<sessions, env, clients, geminis, last, firstByKey, firstDefault>>
agentVars == <<chatHistory, retrievedContext, calls, superChat, injected, history0>>
toolVars  == <<uuids, chatOut>>
indexVars == <<viaClient, viaConn>>
vars == <<storeVars, agentVars, toolVars, indexVars>>

\* JavaScript's undefined (an absent property or argument) and null.
UNDEFINED == "<undefined>"
NULL == "<null>"

(***************************************************************************)
(* Bounds of the model.                                                    *)
(***************************************************************************)
MaxClients == 2     \* GoogleGenerativeAI clients constructed in one run
MaxGeminis == 2     \* Gemini instances constructed in one run

(***************************************************************************)
(* Part 1.  GeminiSession, GeminiSessionStore, Gemini.constructor          *)
(***************************************************************************)
GOOGLE == "google"
VERTEX == "vertex"
Backends == {GOOGLE, VERTEX}

\* The API keys of the model; an apiKey option may also be absent or empty.
Keys == {"k1", "k2"}
KeyValues == Keys \cup {UNDEFINED, ""}
\* GeminiSessionOptions as far as the store reads them.
Options == [backend : Backends, apiKey : KeyValues]
\* The default parameter of GeminiSessionStore.get.
DefaultOptions == [backend |-> GOOGLE, apiKey |-> UNDEFINED]

NoSessionError == "No Session"
NoKeyError == "Set Google API Key in GOOGLE_API_KEY env variable"
NoError == "<none>"
\* No session object (a call that threw returns none).
NoSession == 0

\* JavaScript truthiness of an optional string: !v holds for undefined and "".
Falsy(v) == v = UNDEFINED \/ v = ""

\* getEnv("GOOGLE_API_KEY")
getEnv == env

\* options.apiKey after lines 98-100 of the GeminiSession constructor.
ConstructorKey(options) ==
  IF Falsy(options.apiKey) THEN getEnv ELSE options.apiKey

\* A constructor that rejects a missing key and accepts an empty one.
ConstructorThrowsOnUndefined(options) == ConstructorKey(options) = UNDEFINED

\* The constructor throws at line 102, before the vendor client of line 104.
ConstructorThrows(options) == Falsy(ConstructorKey(options))

\* A constructor that leaves the caller's options object as it was.
ConstructorOptionsUntouched(options) == options

\* The options object after a successful constructor run: the constructor
\* writes the key it used into the caller's object, which the store keeps.
ConstructorOptions(options) == [options EXCEPT !.apiKey = ConstructorKey(options)]

getSessionId(options) ==
  IF options.backend = GOOGLE
  THEN IF options.apiKey = UNDEFINED THEN "" ELSE options.apiKey
  ELSE ""

sessionMatched(o1, o2) == getSessionId(o1) = getSessionId(o2)

\* findLast in place of find: the index of the last matching entry.
FindLastSession(options) ==
  LET hits == {i \in 1..Len(sessions) : sessionMatched(sessions[i].options, options)}
  IN IF hits = {} THEN 0 ELSE CHOOSE i \in hits : \A j \in hits : i >= j

\* this.sessions.find(...): the index of the first matching entry, 0 for none.
FindSession(options) ==
  LET hits == {i \in 1..Len(sessions) : sessionMatched(sessions[i].options, options)}
  IN IF hits = {} THEN 0 ELSE CHOOSE i \in hits : \A j \in hits : i <= j

\* A get that creates a session for every backend.
NeverThrowsNoSession(options) == FALSE

\* Line 190: a miss for the Vertex backend throws "No Session".
ThrowsNoSession(options) == options.backend = VERTEX

\* What a call leaves in `last`.
Outcome(op, options, result, error) ==
  [op |-> op, options |-> options, env |-> env, result |-> result, error |-> error]

\* History of the first sessions returned, updated by a get that returned s.
NoteFirst(options, s) ==
  /\ firstByKey' =
       IF options.backend = GOOGLE /\ ~Falsy(options.apiKey)
          /\ firstByKey[options.apiKey] = NoSession
       THEN [firstByKey EXCEPT ![options.apiKey] = s]
       ELSE firstByKey
  /\ firstDefault' =
       IF options = DefaultOptions /\ env \in Keys /\ firstDefault[env] = NoSession
       THEN [firstDefault EXCEPT ![env] = s]
       ELSE firstDefault

\* What the caller of get does with the session s returned: the Gemini
\* constructor keeps it in this.session (nothing runs after a throw).
Returned(op, s) ==
  geminis' = IF op = "gemini" THEN Append(geminis, s) ELSE geminis

\* The body of GeminiSessionStore.get(options), called by `op`.
GetBody(op, options) ==
  LET i == FindSession(options) IN
  IF i # 0
  THEN /\ last' = Outcome(op, options, sessions[i].session, NoError)
       /\ NoteFirst(options, sessions[i].session)
       /\ Returned(op, sessions[i].session)
       /\ UNCHANGED <<sessions, clients>>
  ELSE IF ThrowsNoSession(options)
  THEN /\ last' = Outcome(op, options, NoSession, NoSessionError)
       /\ UNCHANGED <<sessions, clients, geminis, firstByKey, firstDefault>>
  ELSE IF ConstructorThrows(options)
  THEN /\ last' = Outcome(op, options, NoSession, NoKeyError)
       /\ UNCHANGED <<sessions, clients, geminis, firstByKey, firstDefault>>
  ELSE /\ clients < MaxClients
       /\ clients' = clients + 1
       /\ sessions' = Append(sessions, [session |-> clients + 1,
                                        options |-> ConstructorOptions(options)])
       /\ last' = Outcome(op, options, clients + 1, NoError)
       /\ NoteFirst(options, clients + 1)
       /\ Returned(op, clients + 1)

\* GeminiSessionStore.get(options)
Get(options) ==
  /\ GetBody("get", options)
  /\ UNCHANGED <<env, agentVars, toolVars, indexVars>>

\* new GeminiSession(options), not through the store
NewSession(options) ==
  /\ IF ConstructorThrows(options)
     THEN /\ last' = Outcome("new", options, NoSession, NoKeyError)
          /\ UNCHANGED clients
     ELSE /\ clients < MaxClients
          /\ clients' = clients + 1
          /\ last' = Outcome("new", options, clients + 1, NoError)
  /\ UNCHANGED <<sessions, env, geminis, firstByKey, firstDefault,
                 agentVars, toolVars, indexVars>>

\* new Gemini(init) with init.session absent: this.session = GeminiSessionStore.get()
NewGemini ==
  /\ Len(geminis) < MaxGeminis
  /\ GetBody("gemini", DefaultOptions)
  /\ UNCHANGED <<env, agentVars, toolVars, indexVars>>

\* new Gemini({session}): the session given is kept, the store is not asked
NewGeminiWith(s) ==
  /\ Len(geminis) < MaxGeminis
  /\ geminis' = Append(geminis, s)
  /\ last' = Outcome("geminiWith", DefaultOptions, s, NoError)
  /\ UNCHANGED <<sessions, env, clients, firstByKey, firstDefault,
                 agentVars, toolVars, indexVars>>

\* The process environment changes between calls.
SetEnv(v) ==
  /\ v # env
  /\ env' = v
  /\ last' = Outcome("setenv", DefaultOptions, NoSession, NoError)
  /\ UNCHANGED <<sessions, clients, geminis, firstByKey, firstDefault,
                 agentVars, toolVars, indexVars>>

StoreStart(e) ==
  /\ sessions = <<>>
  /\ env = e
  /\ clients = 0
  /\ geminis = <<>>
  /\ last = [op |-> "none", options |-> DefaultOptions, env |-> UNDEFINED,
             result |-> NoSession, error |-> NoError]
  /\ firstByKey = [k \in Keys |-> NoSession]
  /\ firstDefault = [k \in Keys |-> NoSession]

\* The store is a static field: it starts empty; the environment is any.
StoreInit == \E e \in KeyValues : StoreStart(e)

StoreNext ==
  \/ \E o \in Options : Get(o)
  \/ \E o \in Options : NewSession(o)
  \/ NewGemini
  \/ \E s \in 1..clients : NewGeminiWith(s)
  \/ \E v \in KeyValues : SetEnv(v)

(***************************************************************************)
(* Part 2.  withContextAwareness: ContextAwareAgent                        *)
(***************************************************************************)
MaxCalls == 2       \* chat calls started in one run
MaxHistory == 2     \* messages of the history injectContext is applied to
MaxInjects == 2     \* direct injectContext calls in one run

Roles == {"system", "user", "assistant"}
\* The texts of the model: node contents, message contents.
Texts == {"a", "b"}
Messages == [role : Roles, content : Texts]
\* The params of a chat call: params.message, and params.stream (absent,
\* false or true).
ChatParams == { [message |-> "q1", stream |-> UNDEFINED],
                [message |-> "q1", stream |-> "true"],
                [message |-> "q2", stream |-> "false"] }

RECURSIVE Join(_, _)
\* Array.prototype.join
Join(parts, sep) ==
  IF parts = <<>> THEN ""
  ELSE IF Len(parts) = 1 THEN parts[1]
  ELSE parts[1] \o sep \o Join(Tail(parts), sep)

RECURSIVE SeqsUpTo(_, _)
\* The sequences over S of length at most n.
SeqsUpTo(S, n) ==
  IF n = 0 THEN {<<>>}
  ELSE LET shorter == SeqsUpTo(S, n - 1)
       IN shorter \cup {Append(s, x) : s \in {t \in shorter : Len(t) = n - 1}, x \in S}

\* retrieveContext: the contents of the nodes retrieved, one per line.
retrieveContext(nodes) == Join(nodes, "\n")

\* findLast in place of find: the index of the last system message.
FindLastSystem(history) ==
  LET hits == {i \in 1..Len(history) : history[i].role = "system"}
  IN IF hits = {} THEN 0 ELSE CHOOSE i \in hits : \A j \in hits : i >= j

\* chatHistory.find(msg => msg.role === "system"): its index, 0 for none.
FindSystem(history) ==
  LET hits == {i \in 1..Len(history) : history[i].role = "system"}
  IN IF hits = {} THEN 0 ELSE CHOOSE i \in hits : \A j \in hits : i <= j

\* An injection that replaces the system message's content.
injectContextReplacing(history, context) ==
  LET i == FindSystem(history) IN
  IF i # 0
  THEN [history EXCEPT ![i].content = context]
  ELSE <<[role |-> "system", content |-> context]>> \o history

\* injectContext(context): the chat history it leaves.
injectContext(history, context) ==
  LET i == FindSystem(history) IN
  IF i # 0
  THEN [history EXCEPT ![i].content = context \o "\n\n" \o @]
  ELSE <<[role |-> "system", content |-> context]>> \o history

\* The test without `=== true`: any stream property present.
IsStreamingIfPresent(params) == params.stream # UNDEFINED

\* "stream" in params && params.stream === true
IsStreaming(params) == params.stream = "true"

\* chat(params) is called: it runs up to its first await, inside retrieveContext.
ChatStart(params) ==
  /\ Len(calls) < MaxCalls
  /\ calls' = Append(calls, [params |-> params, pc |-> "retrieving",
                              context |-> NULL, slot |-> 0])
  /\ UNCHANGED <<chatHistory, retrievedContext, superChat, injected, history0,
                 storeVars, toolVars, indexVars>>

\* contextRetriever.retrieve resolves with nodes: retrieveContext returns.
RetrieveDone(c, nodes) ==
  /\ calls[c].pc = "retrieving"
  /\ calls' = [calls EXCEPT ![c].pc = "retrieved",
                            ![c].context = retrieveContext(nodes)]
  /\ UNCHANGED <<chatHistory, retrievedContext, superChat, injected, history0,
                 storeVars, toolVars, indexVars>>

\* chat resumes with the context and runs injectContext, which has no await:
\* it completes before chat suspends on `await this.injectContext(context)`.
Inject(c) ==
  /\ calls[c].pc = "retrieved"
  /\ chatHistory' = injectContext(chatHistory, calls[c].context)
  /\ injected' = Append(injected, calls[c].context)
  /\ calls' = [calls EXCEPT ![c].pc = "injected", ![c].slot = Len(injected) + 1]
  /\ UNCHANGED <<retrievedContext, superChat, history0, storeVars, toolVars, indexVars>>

\* A chat that calls super.chat(params) first, and never injects.
DelegateBeforeInject(c) ==
  /\ calls[c].pc = "retrieved"
  /\ superChat' = Append(superChat, [call |-> c,
                           streaming |-> IsStreaming(calls[c].params),
                           params |-> calls[c].params, history |-> chatHistory,
                           injections |-> Len(injected)])
  /\ calls' = [calls EXCEPT ![c].pc = "delegated"]
  /\ UNCHANGED <<chatHistory, retrievedContext, injected, history0,
                 storeVars, toolVars, indexVars>>

\* chat resumes after the injection and calls super.chat(params): the wrapped
\* agent's chat is started with the caller's params on the history as it is.
Delegate(c) ==
  /\ calls[c].pc = "injected"
  /\ \/ /\ IsStreaming(calls[c].params)
        /\ superChat' = Append(superChat, [call |-> c, streaming |-> TRUE,
                                 params |-> calls[c].params, history |-> chatHistory,
                                 injections |-> Len(injected)])
     \/ /\ ~IsStreaming(calls[c].params)
        /\ superChat' = Append(superChat, [call |-> c, streaming |-> FALSE,
                                 params |-> calls[c].params, history |-> chatHistory,
                                 injections |-> Len(injected)])
  /\ calls' = [calls EXCEPT ![c].pc = "delegated"]
  /\ UNCHANGED <<chatHistory, retrievedContext, injected, history0,
                 storeVars, toolVars, indexVars>>

\* injectContext called directly (it is a public method).
InjectCall(context) ==
  /\ Len(injected) < MaxInjects
  /\ chatHistory' = injectContext(chatHistory, context)
  /\ injected' = Append(injected, context)
  /\ UNCHANGED <<retrievedContext, calls, superChat, history0,
                 storeVars, toolVars, indexVars>>

AgentStart(h) ==
  /\ chatHistory = h
  /\ retrievedContext = NULL
  /\ calls = <<>>
  /\ superChat = <<>>
  /\ injected = <<>>
  /\ history0 = h

\* The histories an agent is constructed with (params.chatHistory).
StartHistories ==
  { <<>>,
    <<[role |-> "system", content |-> "a"]>>,
    <<[role |-> "user", content |-> "b"], [role |-> "assistant", content |-> "a"]>>,
    <<[role |-> "user", content |-> "b"], [role |-> "system", content |-> "a"],
      [role |-> "system", content |-> "b"]>> }

AgentInit == \E h \in StartHistories : AgentStart(h)

\* What a retrieval returns: the contents of the nodes found, possibly none.
NodeLists == {<<>>, <<"a">>, <<"b", "a">>}

AgentNext ==
  \/ \E p \in ChatParams : ChatStart(p)
  \/ \E c \in 1..Len(calls), nodes \in NodeLists : RetrieveDone(c, nodes)
  \/ \E c \in 1..Len(calls) : Inject(c)
  \/ \E c \in 1..Len(calls) : Delegate(c)

\* chat called by a caller that awaits each call before the next one.
ChatStartAwaited(params) ==
  /\ \A c \in 1..Len(calls) : calls[c].pc = "delegated"
  /\ ChatStart(params)

SequentialNext ==
  \/ \E p \in ChatParams : ChatStartAwaited(p)
  \/ \E c \in 1..Len(calls), nodes \in NodeLists : RetrieveDone(c, nodes)
  \/ \E c \in 1..Len(calls) : Inject(c)
  \/ \E c \in 1..Len(calls) : Delegate(c)

\* injectContext applied to an arbitrary history.
InjectInit == \E h \in SeqsUpTo(Messages, MaxHistory) : AgentStart(h)
InjectNext == \E context \in {""} \cup Texts : InjectCall(context)

(***************************************************************************)
(* Part 3.  Gemini: tool-call translation                                  *)
(***************************************************************************)
MaxFunctionCalls == 2   \* function calls in one vendor response
MaxChunks == 2          \* responses in one vendor stream
MaxUuids == 3           \* randomUUID() results handed out in one run

\* An optional value: absent (undefined) or present.
None == [some |-> FALSE]
Some(v) == [some |-> TRUE, val |-> v]

\* The vendor's FunctionCall objects of the model.
FunctionCalls == {[name |-> "f", args |-> "x"], [name |-> "g", args |-> "y"]}
\* response.functionCalls(): undefined or a list, possibly empty.
Responses == {None} \cup {Some(l) : l \in SeqsUpTo(FunctionCalls, MaxFunctionCalls)}
\* params.tools: undefined or a list of tools, possibly empty.
ToolParams == {None, Some(<<>>), Some(<<"t1">>), Some(<<"t1", "t2">>), Some(<<"t2", "t1">>)}

\* A JavaScript object with no property.
EmptyObject == [k \in {} |-> k]

\* randomUUID(): the n-th value handed out.
randomUUID(n) == n

\* getToolsFromResponse(response), the first randomUUID() being number `next`.
getToolsFromResponse(response, next) ==
  IF ~response.some THEN None
  ELSE Some([i \in 1..Len(response.val) |->
               [name |-> response.val[i].name,
                input |-> response.val[i].args,
                id |-> randomUUID(next + i - 1)]])

\* The test without `.length`: tools ? { toolCall: tools } : {}
ToolCallOptionsIfDefined(tools) ==
  IF tools.some THEN [toolCall |-> tools.val] ELSE EmptyObject

\* tools?.length ? { toolCall: tools } : {}
ToolCallOptions(tools) ==
  IF tools.some /\ Len(tools.val) # 0
  THEN [toolCall |-> tools.val]
  ELSE EmptyObject

\* The number of randomUUID() calls a response costs.
UuidsOf(response) == IF response.some THEN Len(response.val) ELSE 0

\* createStartChatParams(params); the history of getChatContext(params) and
\* the declaration mapBaseToolToGeminiFunctionDeclaration makes of a tool are
\* left uninterpreted.
createStartChatParams(tools) ==
  LET common == [history |-> "history", safetySettings |-> "DEFAULT_SAFETY_SETTINGS"]
  IN IF tools.some /\ Len(tools.val) # 0
     THEN [history |-> common.history,
           tools |-> << [functionDeclarations |->
                           [i \in 1..Len(tools.val) |->
                              [declarationOf |-> tools.val[i]]]] >>,
           safetySettings |-> "DEFAULT_SAFETY_SETTINGS"]
     ELSE common

\* nonStreamChat(params): the vendor answers with `response`.
NonStreamChat(tools, response) ==
  /\ uuids + UuidsOf(response) <= MaxUuids
  /\ uuids' = uuids + UuidsOf(response)
  /\ chatOut' = [stream |-> FALSE, tools |-> tools, uuidsBefore |-> uuids,
                 request |-> createStartChatParams(tools),
                 responses |-> <<response>>,
                 options |-> <<ToolCallOptions(getToolsFromResponse(response, uuids + 1))>>]
  /\ UNCHANGED <<storeVars, agentVars, indexVars>>

\* streamChat(params) up to its `yield*`: the request is made, the vendor's
\* stream is open and no response has arrived.
StreamChat(tools) ==
  /\ chatOut' = [stream |-> TRUE, tools |-> tools, uuidsBefore |-> uuids,
                 request |-> createStartChatParams(tools),
                 responses |-> <<>>, options |-> <<>>]
  /\ UNCHANGED <<uuids, storeVars, agentVars, indexVars>>

\* getChatStream: the vendor's stream delivers its next response, which the
\* converter turns into the next chunk.
StreamChunk(response) ==
  /\ chatOut.stream
  /\ Len(chatOut.responses) < MaxChunks
  /\ uuids + UuidsOf(response) <= MaxUuids
  /\ uuids' = uuids + UuidsOf(response)
  /\ chatOut' = [chatOut EXCEPT
        !.responses = Append(@, response),
        !.options = Append(@, ToolCallOptions(getToolsFromResponse(response, uuids + 1)))]
  /\ UNCHANGED <<storeVars, agentVars, indexVars>>

ToolStart ==
  /\ uuids = 0
  /\ chatOut = [stream |-> FALSE, tools |-> None, uuidsBefore |-> 0,
                request |-> createStartChatParams(None),
                responses |-> <<>>, options |-> <<>>]

ToolInit == ToolStart

ToolNext ==
  \/ \E t \in ToolParams, r \in Responses : NonStreamChat(t, r)
  \/ \E t \in ToolParams : StreamChat(t)
  \/ \E r \in Responses : StreamChunk(r)

(***************************************************************************)
(* Part 4.  AzureCosmosVCoreIndexStore: the two factories                  *)
(***************************************************************************)
DEFAULT_DATABASE == "IndexStoreDB"
DEFAULT_COLLECTION == "IndexStoreCollection"

\* The dbName / collectionName arguments of the model; UNDEFINED is an
\* omitted argument.
DbNames == {UNDEFINED, "", "db", DEFAULT_COLLECTION}
CollectionNames == {UNDEFINED, "", "coll", DEFAULT_DATABASE}
\* MongoClient objects a caller hands in, and connection strings.
CallerClients == {[uri |-> "mongodb://one", appName |-> UNDEFINED],
                  [uri |-> "mongodb://two", appName |-> "app"]}
ConnectionStrings == {"mongodb://one", "mongodb://two"}

\* A default parameter value: it replaces undefined only.
DefaultParam(v, d) == IF v = UNDEFINED THEN d ELSE v

\* new AzureCosmosVCoreKVStore({mongoClient, dbName, collectionName})
AzureCosmosVCoreKVStore(mongoClient, dbName, collectionName) ==
  [mongoClient |-> mongoClient, dbName |-> dbName, collectionName |-> collectionName]

\* new AzureCosmosVCoreIndexStore({azureCosmosVCoreKVStore, namespace})
AzureCosmosVCoreIndexStore(kvStore, namespace) ==
  [kvStore |-> kvStore, namespace |-> namespace]

fromMongoClient(mongoClient, dbNameArg, collectionNameArg) ==
  LET dbName == DefaultParam(dbNameArg, DEFAULT_DATABASE)
      collectionName == DefaultParam(collectionNameArg, DEFAULT_COLLECTION)
      azureCosmosVCoreKVStore ==
        AzureCosmosVCoreKVStore(mongoClient, dbName, collectionName)
      namespace == dbName \o "." \o collectionName
  IN AzureCosmosVCoreIndexStore(azureCosmosVCoreKVStore, namespace)

\* A factory whose defaults also replace an empty name (dbName || DEFAULT).
fromConnectionStringOrDefault(connectionString, dbNameArg, collectionNameArg) ==
  LET dbName == IF Falsy(dbNameArg) THEN DEFAULT_DATABASE ELSE dbNameArg
      collectionName ==
        IF Falsy(collectionNameArg) THEN DEFAULT_COLLECTION ELSE collectionNameArg
      mongoClient == [uri |-> connectionString, appName |-> "LLAMAINDEX_JS"]
  IN AzureCosmosVCoreIndexStore(
       AzureCosmosVCoreKVStore(mongoClient, dbName, collectionName),
       dbName \o "." \o collectionName)

fromConnectionString(connectionString, dbNameArg, collectionNameArg) ==
  LET dbName == DefaultParam(dbNameArg, DEFAULT_DATABASE)
      collectionName == DefaultParam(collectionNameArg, DEFAULT_COLLECTION)
      mongoClient == [uri |-> connectionString, appName |-> "LLAMAINDEX_JS"]
  IN AzureCosmosVCoreIndexStore(
       AzureCosmosVCoreKVStore(mongoClient, dbName, collectionName),
       dbName \o "." \o collectionName)

\* AzureCosmosVCoreIndexStore.fromMongoClient(mongoClient, dbName, collectionName)
FromMongoClient(mongoClient, dbName, collectionName) ==
  /\ viaClient' = [called |-> TRUE, dbName |-> dbName, collectionName |-> collectionName,
                   client |-> mongoClient,
                   store |-> fromMongoClient(mongoClient, dbName, collectionName)]
  /\ UNCHANGED <<viaConn, storeVars, agentVars, toolVars>>

\* AzureCosmosVCoreIndexStore.fromConnectionString(connectionString, dbName, collectionName)
FromConnectionString(connectionString, dbName, collectionName) ==
  /\ viaConn' = [called |-> TRUE, dbName |-> dbName, collectionName |-> collectionName,
                 connectionString |-> connectionString,
                 store |-> fromConnectionString(connectionString, dbName, collectionName)]
  /\ UNCHANGED <<viaClient, storeVars, agentVars, toolVars>>

IndexStart ==
  /\ viaClient = [called |-> FALSE]
  /\ viaConn = [called |-> FALSE]

IndexInit == IndexStart

IndexNext ==
  \/ \E m \in CallerClients, d \in DbNames, c \in CollectionNames :
       FromMongoClient(m, d, c)
  \/ \E s \in ConnectionStrings, d \in DbNames, c \in CollectionNames :
       FromConnectionString(s, d, c)

(***************************************************************************)
(* The specifications: one per part.                                       *)
(***************************************************************************)
\* Each specification starts the other parts idle.
StoreOnlyInit == StoreInit /\ AgentStart(<<>>) /\ ToolStart /\ IndexStart
AgentOnlyInit == AgentInit /\ StoreStart(UNDEFINED) /\ ToolStart /\ IndexStart
InjectOnlyInit == InjectInit /\ StoreStart(UNDEFINED) /\ ToolStart /\ IndexStart
ToolOnlyInit == ToolInit /\ StoreStart(UNDEFINED) /\ AgentStart(<<>>) /\ IndexStart
IndexOnlyInit == IndexInit /\ StoreStart(UNDEFINED) /\ AgentStart(<<>>) /\ ToolStart

SpecStore == StoreOnlyInit /\ [][StoreNext]_vars

SpecAgent == AgentOnlyInit /\ [][AgentNext]_vars

SpecSequential == AgentOnlyInit /\ [][SequentialNext]_vars

SpecInject == InjectOnlyInit /\ [][InjectNext]_vars

SpecTools == ToolOnlyInit /\ [][ToolNext]_vars

SpecIndex == IndexOnlyInit /\ [][IndexNext]_vars

(***************************************************************************)
(* Claims about the session store (checked under SpecStore).               *)
(***************************************************************************)
\* A get (directly, or from the Gemini constructor) on the store.
IsGet(l) == l.op \in {"get", "gemini"}
\* The last call passed the Google backend and a non-empty apiKey.
HasExplicitKey(l) == l.options.backend = GOOGLE /\ ~Falsy(l.options.apiKey)

\* The entries of the store that a get with apiKey k matches.
EntriesFor(k) == {i \in 1..Len(sessions) : sessions[i].options.apiKey = k}

\* C1: every get with the Google backend and an explicit non-empty apiKey k
\* returns the session the first successful get with k returned, and the
\* store holds at most one entry for every key that a get has passed
\* explicitly.
C1_OneEntryPerExplicitKey ==
  /\ (last.op = "get" /\ HasExplicitKey(last) /\ last.error = NoError)
        => last.result = firstByKey[last.options.apiKey]
  /\ \A k \in Keys :
        firstByKey[k] # NoSession => Cardinality(EntriesFor(k)) <= 1

\* C2: with GOOGLE_API_KEY set, a get with the default options (from
\* GeminiSessionStore.get() or from new Gemini()) returns the session the
\* first such get returned under that key.
C2_DefaultGetReusesSession ==
  (IsGet(last) /\ last.options = DefaultOptions /\ last.env \in Keys
     /\ last.error = NoError)
     => last.result = firstDefault[last.env]

\* A step that ends a construction without apiKey under an empty environment.
C3_Step ==
  (/\ \/ last'.op = "new"
      \/ IsGet(last') /\ last'.options.backend = GOOGLE
                      /\ FindSession(last'.options) = 0
   /\ last'.options.apiKey = UNDEFINED
   /\ Falsy(last'.env))
     => /\ last'.error = NoKeyError
        /\ last'.result = NoSession
        /\ clients' = clients
        /\ sessions' = sessions
\* C3: constructing a GeminiSession (directly, or through a get with the
\* Google backend that finds no cached match) from options without apiKey,
\* while GOOGLE_API_KEY is unset or empty, throws the missing-key error,
\* creates no vendor client and leaves GeminiSessionStore.sessions as it was.
C3_MissingKeyThrows == [][C3_Step]_vars

\* C3 witness: the store holds a session, the key has left the environment,
\* and a default get threw the missing-key error.
C3_Witness ==
  /\ last.op = "get" /\ last.options = DefaultOptions
  /\ last.error = NoKeyError /\ last.env = ""
  /\ Len(sessions) >= 1

\* A step that ends a Vertex get that found no match.
C4_Step ==
  (last'.op = "get" /\ last'.options.backend = VERTEX
     /\ FindSession(last'.options) = 0)
     => /\ last'.error = NoSessionError
        /\ last'.result = NoSession
        /\ clients' = clients
        /\ sessions' = sessions
\* C4: a get with the Vertex backend, in a store that holds no session
\* matching the options, throws "No Session", creates no session and leaves
\* GeminiSessionStore.sessions unchanged.
C4_VertexMissThrows == [][C4_Step]_vars

\* C4 witness: a Vertex get carrying apiKey "k1" threw "No Session" although
\* the store holds a Google session for "k1".
C4_Witness ==
  /\ last.op = "get" /\ last.options = [backend |-> VERTEX, apiKey |-> "k1"]
  /\ last.error = NoSessionError
  /\ \E i \in 1..Len(sessions) : sessions[i].options.apiKey = "k1"

\* C9: a get with the Vertex backend never returns a session, it throws
\* "No Session"; every stored entry is a Google entry whose session id is a
\* non-empty API key, while the id of a Vertex request is the empty string.
C9_VertexNeverServed ==
  /\ (last.op = "get" /\ last.options.backend = VERTEX)
        => (last.error = NoSessionError /\ last.result = NoSession)
  /\ \A i \in 1..Len(sessions) :
        /\ sessions[i].options.backend = GOOGLE
        /\ getSessionId(sessions[i].options) \in Keys
        /\ \A o \in Options : o.backend = VERTEX =>
              ~sessionMatched(sessions[i].options, o)

\* C9 witness: the store holds two sessions, one of them created by a get
\* without apiKey, and a Vertex get without apiKey threw.
C9_Witness ==
  /\ last.op = "get" /\ last.options = [backend |-> VERTEX, apiKey |-> UNDEFINED]
  /\ last.error = NoSessionError
  /\ Len(sessions) = 2
  /\ firstDefault["k2"] # NoSession

(***************************************************************************)
(* Claims about the context-aware agent (SpecAgent, SpecInject).           *)
(***************************************************************************)
\* p is a prefix of the string s.
IsPrefix(p, s) == Len(p) <= Len(s) /\ SubSeq(s, 1, Len(p)) = p
Reverse(seq) == [i \in 1..Len(seq) |-> seq[Len(seq) + 1 - i]]
\* The system messages of a history.
SystemIndexes(history) == {i \in 1..Len(history) : history[i].role = "system"}
\* The index of the first system message of a history that has one.
FirstSystem(history) ==
  CHOOSE i \in SystemIndexes(history) : \A j \in SystemIndexes(history) : i <= j
\* The contexts injected from the slot-th to the n-th injection, newest
\* first, separated by blank lines.
Stacked(slot, n) == Join(Reverse(SubSeq(injected, slot, n)), "\n\n")
\* The delegations of call c to the wrapped agent's chat.
DelegationsOf(c) == {j \in 1..Len(superChat) : superChat[j].call = c}

\* C5 as stated: at every delegation the history holds a system message
\* whose content begins with the context retrieved for that call's message.
C5_BeginsWithOwnContext ==
  \A j \in 1..Len(superChat) :
    \E i \in SystemIndexes(superChat[j].history) :
      IsPrefix(calls[superChat[j].call].context, superChat[j].history[i].content)

\* The position of a call, and what holds of a delegation.
C5_CallOrder(c) ==
  /\ calls[c].pc \in {"retrieving", "retrieved", "injected", "delegated"}
  /\ calls[c].pc = "retrieving" => calls[c].context = NULL
  /\ calls[c].pc \in {"retrieving", "retrieved"} => calls[c].slot = 0
  /\ calls[c].pc \in {"injected", "delegated"} =>
        /\ calls[c].slot \in 1..Len(injected)
        /\ injected[calls[c].slot] = calls[c].context
  /\ Cardinality(DelegationsOf(c)) = IF calls[c].pc = "delegated" THEN 1 ELSE 0
C5_Delegation(d) ==
  LET call == calls[d.call] IN
  /\ call.pc = "delegated"
  /\ d.params = call.params
  /\ d.streaming = (call.params.stream = "true")
  /\ call.slot \in 1..d.injections
  /\ SystemIndexes(d.history) # {}
  /\ IsPrefix(Stacked(call.slot, d.injections),
              d.history[FirstSystem(d.history)].content)
  /\ d.injections = call.slot =>
        IsPrefix(call.context, d.history[FirstSystem(d.history)].content)
\* C5 amended: every chat call retrieves, then injects, then delegates
\* exactly once with the caller's params (streaming iff params.stream is
\* true); at the moment of delegation the first system message begins with
\* the contexts injected since this call's injection, this call's included,
\* newest first: with the call's own context when no other call injected in
\* between.
C5_InjectBeforeDelegate ==
  /\ \A c \in 1..Len(calls) : C5_CallOrder(c)
  /\ \A j \in 1..Len(superChat) : C5_Delegation(superChat[j])

\* C5 witness: two calls delegated; another call's injection came between
\* the first one's injection and its delegation, so the history it delegated
\* on does not begin with its own context; the other delegated on a history
\* that begins with its own.
C5_Witness ==
  /\ Len(superChat) = 2
  /\ \E j \in 1..2 :
       LET d == superChat[j] IN
       /\ d.injections > calls[d.call].slot
       /\ ~IsPrefix(calls[d.call].context, d.history[FirstSystem(d.history)].content)
  /\ \E j \in 1..2 :
       LET d == superChat[j] IN
       /\ d.injections = calls[d.call].slot
       /\ calls[d.call].context # ""
       /\ d.streaming

\* A step that injects a context: the history before and after.
C6_Step ==
  (injected' # injected) =>
    LET context == injected'[Len(injected')]
        old == chatHistory
        new == chatHistory'
        before == Cardinality(SystemIndexes(old))
    IN /\ before > 0 =>
            /\ Len(new) = Len(old)
            /\ \A j \in 1..Len(old) :
                 /\ new[j].role = old[j].role
                 /\ j # FirstSystem(old) => new[j] = old[j]
            /\ new[FirstSystem(old)].content =
                 context \o "\n\n" \o old[FirstSystem(old)].content
       /\ before = 0 =>
            /\ Len(new) = Len(old) + 1
            /\ new[1] = [role |-> "system", content |-> context]
            /\ \A j \in 1..Len(old) : new[j + 1] = old[j]
       /\ Cardinality(SystemIndexes(new)) = IF before > 1 THEN before ELSE 1
\* C6: injectContext(context) on a history with a system message prepends
\* context and a blank line to the content of the first one and changes
\* nothing else; on a history without one it inserts {system, context} at
\* index 0 and keeps the rest in order; the number of system messages
\* afterwards is max(1, the number before).
C6_InjectContext == [][C6_Step]_vars

\* C6 witness: a history of two system messages after one injection of "b":
\* the first carries the context, the second is as before.
C6_Witness ==
  /\ injected = <<"b">>
  /\ history0 = <<[role |-> "system", content |-> "a"],
                  [role |-> "system", content |-> "b"]>>
  /\ chatHistory = <<[role |-> "system", content |-> "b\n\na"],
                     [role |-> "system", content |-> "b"]>>

\* The contexts retrieved by the calls 1..k, in the order of the calls.
Retrieved(k) == [c \in 1..k |-> calls[c].context]

\* The history C10 describes after the calls 1..k have injected: the first
\* system message carries ck, .., c1 separated by blank lines, then, after a
\* blank line, the original system content if there was one.
AccumulatedAfter(k) ==
  LET stack == Join(Reverse(Retrieved(k)), "\n\n") IN
  IF k = 0 THEN history0
  ELSE IF SystemIndexes(history0) # {}
  THEN [history0 EXCEPT ![FirstSystem(history0)].content = stack \o "\n\n" \o @]
  ELSE <<[role |-> "system", content |-> stack]>> \o history0

\* The calls that have injected their context.
InjectedCalls == {c \in 1..Len(calls) : calls[c].pc \in {"injected", "delegated"}}

IdsOf(i) ==
  IF "toolCall" \in DOMAIN chatOut.options[i]
  THEN {chatOut.options[i].toolCall[j].id : j \in 1..Len(chatOut.options[i].toolCall)}
  ELSE {}

\* The options made of one response, and the request made of params.tools.
C8_Response(response, options) ==
  IF response.some /\ Len(response.val) >= 1
  THEN /\ DOMAIN options = {"toolCall"}
       /\ Len(options.toolCall) = Len(response.val)
       /\ \A i \in 1..Len(response.val) :
            /\ options.toolCall[i].name = response.val[i].name
            /\ options.toolCall[i].input = response.val[i].args
            /\ options.toolCall[i].id \in (chatOut.uuidsBefore + 1)..uuids
            /\ \A j \in 1..Len(response.val) :
                 j # i => options.toolCall[j].id # options.toolCall[i].id
  ELSE DOMAIN options = {}
C8_Request ==
  IF chatOut.tools.some /\ Len(chatOut.tools.val) >= 1
  THEN /\ "tools" \in DOMAIN chatOut.request
       /\ Len(chatOut.request.tools) = 1
       /\ Len(chatOut.request.tools[1].functionDeclarations) = Len(chatOut.tools.val)
       /\ \A i \in 1..Len(chatOut.tools.val) :
            chatOut.request.tools[1].functionDeclarations[i].declarationOf =
               chatOut.tools.val[i]
  ELSE "tools" \notin DOMAIN chatOut.request
\* C8: a vendor response with function calls f1..fn, n >= 1, yields options
\* with toolCall = n tool calls in the same order, the i-th with fi's name,
\* fi's args as input and an id of its own from randomUUID; a response with
\* no function calls (undefined or empty) yields the empty object. The
\* start-chat request has a tools entry only for a non-empty params.tools,
\* and then one function declaration per tool, in order.
C8_ToolCallTranslation ==
  /\ Len(chatOut.options) = Len(chatOut.responses)
  /\ ~chatOut.stream /\ chatOut.responses # <<>> => Len(chatOut.options) = 1
  /\ \A i \in 1..Len(chatOut.responses) :
       /\ C8_Response(chatOut.responses[i], chatOut.options[i])
       /\ \A j \in 1..Len(chatOut.responses) : j # i => IdsOf(i) \cap IdsOf(j) = {}
  /\ C8_Request

\* C8 witness: a stream of two responses, the first with the calls g, f and
\* the second with an empty list, asked with the tools t2, t1: the first
\* chunk carries two tool calls, the second the empty object.
C8_Witness ==
  /\ chatOut.stream
  /\ chatOut.tools = Some(<<"t2", "t1">>)
  /\ chatOut.responses = << Some(<<[name |-> "g", args |-> "y"], [name |-> "f", args |-> "x"]>>),
                            Some(<<>>) >>
  /\ Len(chatOut.options[1].toolCall) = 2
  /\ chatOut.options[1].toolCall[1].name = "g"
  /\ chatOut.options[2] = EmptyObject
  /\ chatOut.request.tools[1].functionDeclarations[1].declarationOf = "t2"

(***************************************************************************)
(* Claims about the index-store factories (SpecIndex).                     *)
(***************************************************************************)
\* The name a factory works with for the argument v: v, or d when omitted.
GivenOr(v, d) == IF v = UNDEFINED THEN d ELSE v

\* What C7 says of one factory call and the store it built.
C7_Built(call) ==
  LET db == GivenOr(call.dbName, "IndexStoreDB")
      coll == GivenOr(call.collectionName, "IndexStoreCollection")
  IN /\ call.store.kvStore.dbName = db
     /\ call.store.kvStore.collectionName = coll
     /\ call.store.namespace = db \o "." \o coll
     /\ (call.dbName = UNDEFINED /\ call.collectionName = UNDEFINED)
           => call.store.namespace = "IndexStoreDB.IndexStoreCollection"

\* C7: fromMongoClient and fromConnectionString build, for the same dbName
\* and collectionName (given or omitted), a KV store over the same database
\* and collection and an index store with the same namespace, dbName "."
\* collectionName, the omitted names being "IndexStoreDB" and
\* "IndexStoreCollection"; they differ in the MongoClient only: the one
\* handed in, or a new one for the connection string.
C7_FactoriesEquivalent ==
  /\ viaClient.called =>
       /\ C7_Built(viaClient)
       /\ viaClient.store.kvStore.mongoClient = viaClient.client
  /\ viaConn.called =>
       /\ C7_Built(viaConn)
       /\ viaConn.store.kvStore.mongoClient.uri = viaConn.connectionString
  /\ (viaClient.called /\ viaConn.called
        /\ viaClient.dbName = viaConn.dbName
        /\ viaClient.collectionName = viaConn.collectionName) =>
       /\ viaClient.store.namespace = viaConn.store.namespace
       /\ viaClient.store.kvStore.dbName = viaConn.store.kvStore.dbName
       /\ viaClient.store.kvStore.collectionName = viaConn.store.kvStore.collectionName

\* C7 witness: both factories were called with an empty dbName and no
\* collectionName, and both built the namespace ".IndexStoreCollection".
C7_Witness ==
  /\ viaClient.called /\ viaConn.called
  /\ viaClient.dbName = "" /\ viaConn.dbName = ""
  /\ viaClient.collectionName = UNDEFINED /\ viaConn.collectionName = UNDEFINED
  /\ viaClient.store.namespace = ".IndexStoreCollection"
  /\ viaConn.store.namespace = ".IndexStoreCollection"

====
